---- MODULE Spec2Model ----
(***************************************************************************)
(* Model of signalAnalysisWorkflow (src/src/functions/signal-analysis.ts)  *)
(* together with the parts of its collaborators that decide its control    *)
(* flow: getSocialMetrics / fetchTopicData (src/src/lib/lunarcrush.ts),    *)
(* generateTradingSignal (src/src/lib/gemini.ts) and the trigger endpoint  *)
(* (src/src/app/api/trigger/route.ts).                                     *)
(*                                                                         *)
(* One run of the workflow for one job id is modelled.  The position of    *)
(* the async workflow body is pc; every action is the code between two     *)
(* awaits of an external call (job store, data provider, scorer, signal    *)
(* store).  A candidate's symbol is its position in event.data.topCoins.   *)
(***************************************************************************)
EXTENDS Integers, Sequences, FiniteSets, TLC

\* ------------------------------------------------------------------ bounds
MaxCandidates == 4

\* longest sequence of scored results the summary is applied to on its own
MaxSignals == 4

\* ------------------------------------------------------- program constants
\* "Stop once we have 3 coins with complete data"
TargetCoins == 3

\* progress_percentage of the row inserted by initialize-job
InitialProgress == 14

\* the divisor of updateProgress: Math.round((stepNumber / 7) * 100)
TotalSteps == 7

\* ------------------------------------------------------------------ values
Zeros == [mentions |-> 0, interactions |-> 0, creators |-> 0]

\* What the provider's /topic/<symbol>/v1 request yields for one candidate:
\* a failed request (HTTP error, timeout, missing data object) or counters.
FailedRequest == [ok |-> FALSE, data |-> Zeros]

TopicOutcomes ==
    {FailedRequest} \cup
    { [ok |-> TRUE, data |-> [mentions |-> m, interactions |-> n, creators |-> c]] :
        m \in 0..1, n \in 0..1, c \in 0..1 }

\* The outcomes the whole pipeline is explored with: a failed request, a
\* response with all counters zero, a response with one counter positive.
PipelineOutcomes ==
    { FailedRequest,
      [ok |-> TRUE, data |-> Zeros],
      [ok |-> TRUE, data |-> [mentions |-> 0, interactions |-> 0, creators |-> 1]] }

\* What the scoring capability yields for one item: a rejection, or a
\* signal with a decision and a confidence.
Rejected == [rejected |-> TRUE, signal |-> "NONE", confidence |-> 0]

\* The two confidences sit on either side of the alert threshold.
Verdicts ==
    { [rejected |-> FALSE, signal |-> "BUY",  confidence |-> 70],
      [rejected |-> FALSE, signal |-> "HOLD", confidence |-> 69] }

ScoreOutcomes == Verdicts \cup {Rejected}

\* The value a settled signal promise holds after the .catch handler.
NullSignal == [isNull |-> TRUE, symbol |-> 0, signal |-> "NONE", confidence |-> 0]

Pending == [isNull |-> TRUE, symbol |-> -1, signal |-> "PENDING", confidence |-> 0]

NotReturned == [rejected |-> FALSE, signal |-> "PENDING", confidence |-> 0]

Msg(tag, n, total, symbols) ==
    [tag |-> tag, n |-> n, total |-> total, symbols |-> symbols]

NoJob ==
    [exists |-> FALSE, status |-> "none", current_step |-> "none",
     step_message |-> Msg("none", 0, 0, <<>>), progress_percentage |-> 0,
     signals_generated |-> -1, alerts_generated |-> -1, completed_at |-> FALSE]

\* A row left in analysis_jobs by an earlier, finished run with the same id.
EarlierJob ==
    [exists |-> TRUE, status |-> "completed", current_step |-> "Analysis Complete",
     step_message |-> Msg("Generated signals", 0, 0, <<>>),
     progress_percentage |-> 100,
     signals_generated |-> 0, alerts_generated |-> 0, completed_at |-> TRUE]

NoSummary ==
    [totalAnalyzed |-> -1, highConfidence |-> -1,
     BUY |-> -1, SELL |-> -1, HOLD |-> -1, topSignals |-> <<>>]

VARIABLES
    geminiResponse,  \* what the AI service does for each scoring call
    topicResponse,   \* provider outcome per candidate of event.data.topCoins
    job,             \* the analysis_jobs row with id jobId
    pc,              \* position of the workflow body
    thrown,          \* the error that left the workflow, "none" if none
    coinIdx,         \* position of the for-of loop over candidateCoins
    results,         \* select-and-fetch-data: local results
    fetchCalls,      \* symbols getSocialMetrics was invoked with, in order
    socialMetrics,   \* return value of step select-and-fetch-data
    signalPromises,  \* generate-ai-signals: settled value per promise
    scoreCalls,      \* symbols generateTradingSignal was invoked with
    scoreReturn,     \* what each generateTradingSignal call yielded
    tradingSignals,  \* return value of step generate-ai-signals
    saveIdx,         \* save-to-database: loop variable i
    saveResults,     \* save-to-database: local saveResults
    insertCalls,     \* inserts issued on trading_signals, with their outcome
    trading_signals, \* rows of table trading_signals written by this run
    summary,         \* return value of step generate-summary
    alertCalls,      \* symbols sendSignalAlert was invoked with
    alertPromises,   \* send-notifications: state of each alert promise
    sentCount,       \* send-notifications: alerts that resolved with true
    progressOk       \* no progress write of this run has failed so far

vars ==
    << geminiResponse, topicResponse, job, pc, thrown, coinIdx, results, fetchCalls,
       socialMetrics, signalPromises, scoreCalls, scoreReturn, tradingSignals,
       saveIdx, saveResults, insertCalls, trading_signals, summary,
       alertCalls, alertPromises, sentCount, progressOk >>

\* ----------------------------------------------------------- pure helpers
candidateCoins == [i \in 1..Len(topicResponse) |-> i]

\* Math.round(x) for x = 100 * stepNumber / 7 >= 0: floor(x + 1/2)
Round(num, den) == (2 * num + den) \div (2 * den)

\* variant: the operands of the division swapped
ProgressPercentageInverted(stepNumber) == Round(TotalSteps * 100, stepNumber)

\* variant: Math.floor in place of Math.round
ProgressPercentageFloor(stepNumber) == (stepNumber * 100) \div TotalSteps

ProgressPercentage(stepNumber) == Round(stepNumber * 100, TotalSteps)

\* fetchTopicData: any failure of the request is turned into zero counters
fetchTopicData(symbol) ==
    IF topicResponse[symbol].ok THEN topicResponse[symbol].data ELSE Zeros

\* getSocialMetrics: the topic counters, tagged with the coin's symbol
getSocialMetrics(coin) ==
    [symbol       |-> coin,
     mentions     |-> fetchTopicData(coin).mentions,
     interactions |-> fetchTopicData(coin).interactions,
     creators     |-> fetchTopicData(coin).creators]

\* variant: every counter has to be positive
HasRealDataAllCounters(metrics) ==
    metrics.mentions > 0 /\ metrics.interactions > 0 /\ metrics.creators > 0

\* variant: zero counters count as data
HasRealDataOrZero(metrics) ==
    metrics.mentions >= 0 \/ metrics.interactions >= 0 \/ metrics.creators >= 0

\* "Check if we got real data (not all zeros)"
HasRealData(metrics) ==
    metrics.mentions > 0 \/ metrics.interactions > 0 \/ metrics.creators > 0

\* variant: stops one coin late
EnoughCoinsLate(found) == Len(found) > TargetCoins

\* "Stop once we have 3 coins with complete data"
EnoughCoins(found) == Len(found) >= TargetCoins

\* variant: the status is left out of the update
updateProgressWithoutStatus(row, stepNumber, stepName, stepMessage, status, ok) ==
    IF ok /\ row.exists
    THEN [row EXCEPT !.current_step = stepName,
                     !.step_message = stepMessage,
                     !.progress_percentage = ProgressPercentage(stepNumber)]
    ELSE row

\* updateProgress: a key-addressed update of the job row; an error or an
\* exception of the store is logged and swallowed, the row stays as it was.
updateProgress(row, stepNumber, stepName, stepMessage, status, ok) ==
    IF ok /\ row.exists
    THEN [row EXCEPT !.current_step = stepName,
                     !.step_message = stepMessage,
                     !.progress_percentage = ProgressPercentage(stepNumber),
                     !.status = status]
    ELSE row

Symbols(seq) == [i \in 1..Len(seq) |-> seq[i].symbol]

\* ------------------------------------------------------------------- Init
RECURSIVE SeqsUpTo(_, _)
SeqsUpTo(S, n) ==
    IF n = 0 THEN {<<>>}
    ELSE LET shorter == SeqsUpTo(S, n - 1)
         IN  shorter \cup { Append(s, x) : s \in {t \in shorter : Len(t) = n - 1}, x \in S }

InitWith(outcomes) ==
    /\ topicResponse \in SeqsUpTo(outcomes, MaxCandidates)
    /\ geminiResponse = <<>>
    /\ job \in {NoJob, EarlierJob}
    /\ pc = "initialize-job"
    /\ thrown = "none"
    /\ coinIdx = 1
    /\ results = <<>>
    /\ fetchCalls = <<>>
    /\ socialMetrics = <<>>
    /\ signalPromises = <<>>
    /\ scoreCalls = <<>>
    /\ scoreReturn = <<>>
    /\ tradingSignals = <<>>
    /\ saveIdx = 0
    /\ saveResults = <<>>
    /\ insertCalls = <<>>
    /\ trading_signals = <<>>
    /\ summary = NoSummary
    /\ alertCalls = <<>>
    /\ alertPromises = <<>>
    /\ sentCount = 0
    /\ progressOk = TRUE

\* ---------------------------------------------------------------- actions
\* variant: the error of the insert is logged and not rethrown
InitializeJobIgnoringError ==
    /\ pc = "initialize-job"
    /\ \E storeOk \in BOOLEAN :
         job' = IF storeOk /\ ~job.exists
                THEN [NoJob EXCEPT !.exists = TRUE,
                                   !.status = "started",
                                   !.current_step = "Initializing Analysis",
                                   !.step_message = Msg("Setting up", 0, 0, <<>>),
                                   !.progress_percentage = InitialProgress]
                ELSE job
    /\ pc' = "select-start"
    /\ UNCHANGED << geminiResponse, topicResponse, thrown, coinIdx, results, fetchCalls, socialMetrics,
                    signalPromises, scoreCalls, scoreReturn, tradingSignals, saveIdx,
                    saveResults, insertCalls, trading_signals, summary,
                    alertCalls, alertPromises, sentCount, progressOk >>

\* Step 1: initialize-job.  The insert fails when a row with this id exists
\* or when the store fails; the error is rethrown and leaves the workflow.
InitializeJob ==
    /\ pc = "initialize-job"
    /\ \E storeOk \in BOOLEAN :
         IF storeOk /\ ~job.exists
         THEN /\ job' = [NoJob EXCEPT !.exists = TRUE,
                                      !.status = "started",
                                      !.current_step = "Initializing Analysis",
                                      !.step_message = Msg("Setting up", 0, 0, <<>>),
                                      !.progress_percentage = InitialProgress]
              /\ pc' = "select-start"
              /\ UNCHANGED thrown
         ELSE /\ pc' = "threw"
              /\ thrown' = "JobCreationError"
              /\ UNCHANGED job
    /\ UNCHANGED << geminiResponse, topicResponse, coinIdx, results, fetchCalls, socialMetrics,
                    signalPromises, scoreCalls, scoreReturn, tradingSignals, saveIdx,
                    saveResults, insertCalls, trading_signals, summary,
                    alertCalls, alertPromises, sentCount, progressOk >>

\* variant: the empty-list check is missing
SelectStartUnchecked ==
    /\ pc = "select-start"
    /\ \E ok \in BOOLEAN :
         /\ job' = updateProgress(job, 2, "Selecting Best Coins",
                                  Msg("Testing top 10", 0, 0, <<>>), "started", ok)
         /\ progressOk' = (progressOk /\ ok)
    /\ pc' = "select-loop"
    /\ UNCHANGED << geminiResponse, topicResponse, thrown, coinIdx, results, fetchCalls, socialMetrics,
                    signalPromises, scoreCalls, scoreReturn, tradingSignals, saveIdx,
                    saveResults, insertCalls, trading_signals, summary,
                    alertCalls, alertPromises, sentCount >>

\* select-and-fetch-data, up to the loop: progress update, empty-list check.
SelectStart ==
    /\ pc = "select-start"
    /\ \E ok \in BOOLEAN :
         /\ job' = updateProgress(job, 2, "Selecting Best Coins",
                                  Msg("Testing top 10", 0, 0, <<>>), "started", ok)
         /\ progressOk' = (progressOk /\ ok)
    /\ IF Len(candidateCoins) = 0
       THEN pc' = "threw" /\ thrown' = "No candidate coins provided"
       ELSE pc' = "select-loop" /\ UNCHANGED thrown
    /\ UNCHANGED << geminiResponse, topicResponse, coinIdx, results, fetchCalls, socialMetrics,
                    signalPromises, scoreCalls, scoreReturn, tradingSignals, saveIdx,
                    saveResults, insertCalls, trading_signals, summary,
                    alertCalls, alertPromises, sentCount >>

\* variant: a failed topic request ends the scan with an error
TestCoinAborting ==
    /\ pc = "select-loop"
    /\ coinIdx <= Len(candidateCoins)
    /\ ~EnoughCoins(results)
    /\ LET coin    == candidateCoins[coinIdx]
           metrics == getSocialMetrics(coin)
       IN  /\ \E ok \in BOOLEAN :
                /\ job' = updateProgress(job, 2, "Testing Coin Data",
                                         Msg("Checking", coin, Len(results) + 1, <<>>),
                                         "started", ok)
                /\ progressOk' = (progressOk /\ ok)
           /\ fetchCalls' = Append(fetchCalls, coin)
           /\ results' = IF HasRealData(metrics)
                         THEN Append(results, [symbol |-> coin, metrics |-> metrics,
                                               success |-> TRUE])
                         ELSE results
           /\ pc' = IF topicResponse[coin].ok THEN pc ELSE "threw"
           /\ thrown' = IF topicResponse[coin].ok THEN thrown
                         ELSE "No coins with complete social data found in top 10"
    /\ coinIdx' = coinIdx + 1
    /\ UNCHANGED << geminiResponse, topicResponse, socialMetrics, signalPromises,
                    scoreCalls, scoreReturn, tradingSignals, saveIdx, saveResults,
                    insertCalls, trading_signals, summary, alertCalls, alertPromises, sentCount >>

\* One iteration of the for-of loop: progress update, fetch, classify.
TestCoin ==
    /\ pc = "select-loop"
    /\ coinIdx <= Len(candidateCoins)
    /\ ~EnoughCoins(results)
    /\ LET coin    == candidateCoins[coinIdx]
           metrics == getSocialMetrics(coin)
       IN  /\ \E ok \in BOOLEAN :
                /\ job' = updateProgress(job, 2, "Testing Coin Data",
                                         Msg("Checking", coin, Len(results) + 1, <<>>),
                                         "started", ok)
                /\ progressOk' = (progressOk /\ ok)
           /\ fetchCalls' = Append(fetchCalls, coin)
           /\ results' = IF HasRealData(metrics)
                         THEN Append(results, [symbol |-> coin, metrics |-> metrics,
                                               success |-> TRUE])
                         ELSE results
    /\ coinIdx' = coinIdx + 1
    /\ UNCHANGED << geminiResponse, topicResponse, pc, thrown, socialMetrics, signalPromises,
                    scoreCalls, scoreReturn, tradingSignals, saveIdx, saveResults,
                    insertCalls, trading_signals, summary, alertCalls, alertPromises, sentCount >>

\* The loop is left (break or exhausted list); empty results are an error.
SelectFinish ==
    /\ pc = "select-loop"
    /\ (coinIdx > Len(candidateCoins) \/ EnoughCoins(results))
    /\ IF Len(results) = 0
       THEN /\ pc' = "threw"
            /\ thrown' = "No coins with complete social data found in top 10"
            /\ UNCHANGED << job, socialMetrics, progressOk >>
       ELSE /\ \E ok \in BOOLEAN :
                 /\ job' = updateProgress(job, 3, "Selection Complete",
                                          Msg("Selected", Len(results), 0, Symbols(results)),
                                          "started", ok)
                 /\ progressOk' = (progressOk /\ ok)
            /\ socialMetrics' = results
            /\ pc' = "generate-ai-signals"
            /\ UNCHANGED thrown
    /\ UNCHANGED << geminiResponse, topicResponse, coinIdx, results, fetchCalls, signalPromises,
                    scoreCalls, scoreReturn, tradingSignals, saveIdx, saveResults,
                    insertCalls, trading_signals, summary, alertCalls, alertPromises, sentCount >>

\* The .catch handler of one signal promise: a rejection becomes null.
CatchToNull(symbol, outcome) ==
    IF outcome.rejected
    THEN NullSignal
    ELSE [isNull |-> FALSE, symbol |-> symbol,
          signal |-> outcome.signal, confidence |-> outcome.confidence]

\* .filter((s) => s !== null) on the array Promise.all resolves with
NonNull(s) == ~s.isNull

\* variant: one null empties the whole result
FilterSignalsAllOrNothing(settled) ==
    IF \E i \in DOMAIN settled : settled[i].isNull THEN <<>> ELSE settled

FilterSignals(settled) == SelectSeq(settled, NonNull)

\* variant: resolves with the first promise that settles (a race)
AnySettled(promises) ==
    promises = <<>> \/ \E i \in DOMAIN promises : promises[i] # Pending

\* Promise.all over the caught promises resolves once each has settled
AllSettled(promises) == \A i \in DOMAIN promises : promises[i] # Pending

\* generate-ai-signals, up to the await: progress update, then one
\* generateTradingSignal call per selected item, all started before any await.
SignalsStart ==
    /\ pc = "generate-ai-signals"
    /\ \E ok \in BOOLEAN :
         /\ job' = updateProgress(job, 4, "AI Signal Generation",
                                  Msg("Analyzing in parallel", 0, 0, <<>>), "started", ok)
         /\ progressOk' = (progressOk /\ ok)
    /\ LET HasMetrics(r) == r.success
           successfulMetrics == SelectSeq(socialMetrics, HasMetrics)
       IN  /\ scoreCalls' = Symbols(successfulMetrics)
           /\ signalPromises' = [i \in 1..Len(successfulMetrics) |-> Pending]
           /\ scoreReturn' = [i \in 1..Len(successfulMetrics) |-> NotReturned]
    /\ pc' = "await-signals"
    /\ UNCHANGED << geminiResponse, topicResponse, thrown, coinIdx, results, fetchCalls,
                    socialMetrics, tradingSignals, saveIdx, saveResults,
                    insertCalls, trading_signals, summary, alertCalls, alertPromises, sentCount >>

\* variant: each scoring task reports its own progress to the job row
SignalSettlesReporting(i) ==
    /\ i \in DOMAIN signalPromises
    /\ signalPromises[i] = Pending
    /\ \E outcome \in ScoreOutcomes :
         /\ scoreReturn' = [scoreReturn EXCEPT ![i] = outcome]
         /\ signalPromises' =
              [signalPromises EXCEPT ![i] = CatchToNull(scoreCalls[i], outcome)]
    /\ job' = updateProgress(job, 4, "AI Signal Generation",
                             Msg("Analyzed", i, 0, <<>>), "started", TRUE)
    /\ UNCHANGED << geminiResponse, topicResponse, pc, thrown, coinIdx, results, fetchCalls,
                    socialMetrics, scoreCalls, tradingSignals, saveIdx,
                    saveResults, insertCalls, trading_signals, summary,
                    alertCalls, alertPromises, sentCount, progressOk >>

\* One scoring call resolves or rejects, in any order relative to the others.
SignalSettles(i) ==
    /\ i \in DOMAIN signalPromises
    /\ signalPromises[i] = Pending
    /\ \E outcome \in ScoreOutcomes :
         /\ scoreReturn' = [scoreReturn EXCEPT ![i] = outcome]
         /\ signalPromises' =
              [signalPromises EXCEPT ![i] = CatchToNull(scoreCalls[i], outcome)]
    /\ UNCHANGED << geminiResponse, topicResponse, job, pc, thrown, coinIdx, results, fetchCalls,
                    socialMetrics, scoreCalls, tradingSignals, saveIdx,
                    saveResults, insertCalls, trading_signals, summary,
                    alertCalls, alertPromises, sentCount, progressOk >>

\* Promise.all resolves: filter, progress update, return.
SignalsJoin ==
    /\ pc = "await-signals"
    /\ AllSettled(signalPromises)
    /\ LET signals == FilterSignals(signalPromises)
       IN  /\ \E ok \in BOOLEAN :
                /\ job' = updateProgress(job, 4, "AI Analysis Complete",
                                         Msg("Generated", Len(signals), 0, <<>>),
                                         "started", ok)
                /\ progressOk' = (progressOk /\ ok)
           /\ tradingSignals' = signals
    /\ pc' = "save-to-database"
    /\ UNCHANGED << geminiResponse, topicResponse, thrown, coinIdx, results, fetchCalls,
                    socialMetrics, signalPromises, scoreCalls, scoreReturn,
                    saveIdx, saveResults, insertCalls, trading_signals,
                    summary, alertCalls, alertPromises, sentCount >>

\* variant: the entry reports success whatever the insert did
SaveResultAlwaysSuccess(signal, inserted) == [symbol |-> signal.symbol, success |-> TRUE]

\* The entry save-to-database records for one insert
SaveResult(signal, inserted) == [symbol |-> signal.symbol, success |-> inserted]

\* variant: a progress write that fails is not caught and leaves the workflow
SaveStartAborting ==
    /\ pc = "save-to-database"
    /\ \E ok \in BOOLEAN :
         /\ job' = updateProgress(job, 5, "Saving Results",
                                  Msg("Storing", Len(tradingSignals), 0, <<>>),
                                  "started", ok)
         /\ progressOk' = (progressOk /\ ok)
         /\ IF ok
            THEN pc' = "save-loop" /\ UNCHANGED thrown
            ELSE pc' = "threw" /\ thrown' = "Failed to update DB progress"
    /\ saveIdx' = 0
    /\ saveResults' = <<>>
    /\ UNCHANGED << geminiResponse, topicResponse, coinIdx, results, fetchCalls,
                    socialMetrics, signalPromises, scoreCalls, scoreReturn,
                    tradingSignals, insertCalls, trading_signals, summary,
                    alertCalls, alertPromises, sentCount >>

\* save-to-database, up to the loop.
SaveStart ==
    /\ pc = "save-to-database"
    /\ \E ok \in BOOLEAN :
         /\ job' = updateProgress(job, 5, "Saving Results",
                                  Msg("Storing", Len(tradingSignals), 0, <<>>),
                                  "started", ok)
         /\ progressOk' = (progressOk /\ ok)
    /\ saveIdx' = 0
    /\ saveResults' = <<>>
    /\ pc' = "save-loop"
    /\ UNCHANGED << geminiResponse, topicResponse, thrown, coinIdx, results, fetchCalls,
                    socialMetrics, signalPromises, scoreCalls, scoreReturn,
                    tradingSignals, insertCalls, trading_signals, summary,
                    alertCalls, alertPromises, sentCount >>

\* One iteration of the save loop: insert; on success record it and update
\* the progress, on failure record the failure and go on.
SaveOne ==
    /\ pc = "save-loop"
    /\ saveIdx < Len(tradingSignals)
    /\ LET signal == tradingSignals[saveIdx + 1]
       IN  \E inserted \in BOOLEAN :
             /\ insertCalls' = Append(insertCalls,
                                      [symbol |-> signal.symbol, ok |-> inserted])
             /\ saveResults' = Append(saveResults, SaveResult(signal, inserted))
             /\ IF inserted
                THEN /\ trading_signals' = Append(trading_signals, signal)
                     /\ \E ok \in BOOLEAN :
                          /\ job' = updateProgress(job, 5, "Saving Results",
                                      Msg("Saved", saveIdx + 1, Len(tradingSignals), <<>>),
                                      "started", ok)
                          /\ progressOk' = (progressOk /\ ok)
                ELSE UNCHANGED << trading_signals, job, progressOk >>
    /\ saveIdx' = saveIdx + 1
    /\ UNCHANGED << geminiResponse, topicResponse, pc, thrown, coinIdx, results, fetchCalls,
                    socialMetrics, signalPromises, scoreCalls, scoreReturn,
                    tradingSignals, summary, alertCalls, alertPromises, sentCount >>

\* variant: the notify phase follows the write phase directly
SaveFinishSkippingSummary ==
    /\ pc = "save-loop"
    /\ saveIdx >= Len(tradingSignals)
    /\ pc' = "send-notifications"
    /\ UNCHANGED << geminiResponse, topicResponse, job, thrown, coinIdx, results, fetchCalls,
                    socialMetrics, signalPromises, scoreCalls, scoreReturn,
                    tradingSignals, saveIdx, saveResults, insertCalls,
                    trading_signals, summary, alertCalls, alertPromises, sentCount, progressOk >>

\* The save loop is exhausted: the step returns saveResults.
SaveFinish ==
    /\ pc = "save-loop"
    /\ saveIdx >= Len(tradingSignals)
    /\ pc' = "generate-summary"
    /\ UNCHANGED << geminiResponse, topicResponse, job, thrown, coinIdx, results, fetchCalls,
                    socialMetrics, signalPromises, scoreCalls, scoreReturn,
                    tradingSignals, saveIdx, saveResults, insertCalls,
                    trading_signals, summary, alertCalls, alertPromises, sentCount, progressOk >>

\* Array.prototype.sort((a, b) => b.confidence - a.confidence): stable,
\* descending by confidence, in place.
RECURSIVE InsertByConfidence(_, _)
InsertByConfidence(sorted, s) ==
    IF sorted = <<>> THEN <<s>>
    ELSE IF Head(sorted).confidence >= s.confidence
         THEN <<Head(sorted)>> \o InsertByConfidence(Tail(sorted), s)
         ELSE <<s>> \o sorted

RECURSIVE SortByConfidence(_)
SortByConfidence(seq) ==
    IF seq = <<>> THEN <<>>
    ELSE InsertByConfidence(SortByConfidence(SubSeq(seq, 1, Len(seq) - 1)),
                            seq[Len(seq)])

\* variant: the threshold itself is not high confidence
IsHighConfidenceAbove(s) == s.confidence > 70

IsHighConfidence(s) == s.confidence >= 70

CountSignal(seq, decision) ==
    Cardinality({i \in DOMAIN seq : seq[i].signal = decision})

\* variant: the top three are taken without sorting
SummarizeUnsorted(signals) ==
    [totalAnalyzed  |-> Len(signals),
     highConfidence |-> Len(SelectSeq(signals, IsHighConfidence)),
     BUY  |-> CountSignal(signals, "BUY"),
     SELL |-> CountSignal(signals, "SELL"),
     HOLD |-> CountSignal(signals, "HOLD"),
     topSignals |-> SubSeq(signals, 1, IF Len(signals) < 3 THEN Len(signals) ELSE 3)]

\* The summary object built by generate-summary from the scored results.
Summarize(signals) ==
    LET sorted == SortByConfidence(signals)
    IN  [totalAnalyzed  |-> Len(signals),
         highConfidence |-> Len(SelectSeq(signals, IsHighConfidence)),
         BUY  |-> CountSignal(signals, "BUY"),
         SELL |-> CountSignal(signals, "SELL"),
         HOLD |-> CountSignal(signals, "HOLD"),
         topSignals |-> SubSeq(sorted, 1, IF Len(sorted) < 3 THEN Len(sorted) ELSE 3)]

\* generate-summary: progress update, counts, top three by confidence; the
\* sort for the top three is applied to tradingSignals itself.
GenerateSummary ==
    /\ pc = "generate-summary"
    /\ \E ok \in BOOLEAN :
         /\ job' = updateProgress(job, 6, "Generating Summary",
                                  Msg("Creating summary", 0, 0, <<>>), "started", ok)
         /\ progressOk' = (progressOk /\ ok)
    /\ summary' = Summarize(tradingSignals)
    /\ tradingSignals' = SortByConfidence(tradingSignals)
    /\ pc' = "send-notifications"
    /\ UNCHANGED << geminiResponse, topicResponse, thrown, coinIdx, results, fetchCalls,
                    socialMetrics, signalPromises, scoreCalls, scoreReturn,
                    saveIdx, saveResults, insertCalls, trading_signals,
                    alertCalls, alertPromises, sentCount >>

\* What one sendSignalAlert call yields: true, false (credentials missing,
\* Telegram error, network failure) or a rejection.
AlertOutcomes == {"sent", "refused", "rejected"}

\* variant: only the results whose row was inserted are alerted
SendNotificationsPersistedOnly ==
    /\ pc = "send-notifications"
    /\ LET IsPersistedHighConfidence(s) ==
               /\ IsHighConfidence(s)
               /\ \E k \in DOMAIN trading_signals : trading_signals[k].symbol = s.symbol
           highConfidenceSignals == SelectSeq(tradingSignals, IsPersistedHighConfidence)
       IN  IF Len(highConfidenceSignals) > 0
           THEN /\ \E ok \in BOOLEAN :
                     /\ job' = updateProgress(job, 6, "Sending Notifications",
                                  Msg("Sending alerts", Len(highConfidenceSignals), 0, <<>>),
                                  "started", ok)
                     /\ progressOk' = (progressOk /\ ok)
                /\ alertCalls' = Symbols(highConfidenceSignals)
                /\ alertPromises' = [i \in 1..Len(highConfidenceSignals) |-> "pending"]
                /\ pc' = "await-alerts"
           ELSE /\ pc' = "complete-job"
                /\ UNCHANGED << job, progressOk, alertCalls, alertPromises >>
    /\ UNCHANGED << geminiResponse, topicResponse, thrown, coinIdx, results, fetchCalls,
                    socialMetrics, signalPromises, scoreCalls, scoreReturn,
                    tradingSignals, saveIdx, saveResults, insertCalls,
                    trading_signals, summary, sentCount >>

\* send-notifications, up to the await: with high-confidence signals a
\* progress update and one sendSignalAlert call per such signal, all started
\* before any is awaited; without them nothing.
SendNotifications ==
    /\ pc = "send-notifications"
    /\ LET highConfidenceSignals == SelectSeq(tradingSignals, IsHighConfidence)
       IN  IF Len(highConfidenceSignals) > 0
           THEN /\ \E ok \in BOOLEAN :
                     /\ job' = updateProgress(job, 6, "Sending Notifications",
                                  Msg("Sending alerts", Len(highConfidenceSignals), 0, <<>>),
                                  "started", ok)
                     /\ progressOk' = (progressOk /\ ok)
                /\ alertCalls' = Symbols(highConfidenceSignals)
                /\ alertPromises' = [i \in 1..Len(highConfidenceSignals) |-> "pending"]
                /\ pc' = "await-alerts"
           ELSE /\ pc' = "complete-job"
                /\ UNCHANGED << job, progressOk, alertCalls, alertPromises >>
    /\ UNCHANGED << geminiResponse, topicResponse, thrown, coinIdx, results, fetchCalls,
                    socialMetrics, signalPromises, scoreCalls, scoreReturn,
                    tradingSignals, saveIdx, saveResults, insertCalls,
                    trading_signals, summary, sentCount >>

\* One alert call resolves or rejects, in any order relative to the others.
AlertSettles(i) ==
    /\ i \in DOMAIN alertPromises
    /\ alertPromises[i] = "pending"
    /\ \E outcome \in AlertOutcomes :
         alertPromises' = [alertPromises EXCEPT ![i] = outcome]
    /\ UNCHANGED << geminiResponse, topicResponse, job, pc, thrown, coinIdx, results, fetchCalls,
                    socialMetrics, signalPromises, scoreCalls, scoreReturn,
                    tradingSignals, saveIdx, saveResults, insertCalls,
                    trading_signals, summary, alertCalls, sentCount, progressOk >>

\* Promise.allSettled resolves once every alert promise has settled, however
\* it settled; the alerts that resolved with true are counted and logged.
NotificationsSettled ==
    /\ pc = "await-alerts"
    /\ \A i \in DOMAIN alertPromises : alertPromises[i] # "pending"
    /\ sentCount' = Cardinality({i \in DOMAIN alertPromises : alertPromises[i] = "sent"})
    /\ alertPromises' = <<>>
    /\ pc' = "complete-job"
    /\ UNCHANGED << geminiResponse, topicResponse, job, thrown, coinIdx, results, fetchCalls,
                    socialMetrics, signalPromises, scoreCalls, scoreReturn,
                    tradingSignals, saveIdx, saveResults, insertCalls,
                    trading_signals, summary, alertCalls, progressOk >>

\* variant: the statistics update also rewrites the step of the row
FinalStatisticsWithStep(row, ok) ==
    IF ok /\ row.exists
    THEN [row EXCEPT !.signals_generated = Len(tradingSignals),
                     !.alerts_generated = summary.highConfidence,
                     !.completed_at = TRUE,
                     !.current_step = "Statistics Saved"]
    ELSE row

\* variant: signals_generated counts the rows that were inserted
FinalStatisticsCountingInserted(row, ok) ==
    IF ok /\ row.exists
    THEN [row EXCEPT !.signals_generated = Len(trading_signals),
                     !.alerts_generated = summary.highConfidence,
                     !.completed_at = TRUE]
    ELSE row

\* variant: the two counters written to each other's field
FinalStatisticsSwapped(row, ok) ==
    IF ok /\ row.exists
    THEN [row EXCEPT !.signals_generated = summary.highConfidence,
                     !.alerts_generated = Len(tradingSignals),
                     !.completed_at = TRUE]
    ELSE row

\* The second update of complete-job: the final job statistics.
FinalStatistics(row, ok) ==
    IF ok /\ row.exists
    THEN [row EXCEPT !.signals_generated = Len(tradingSignals),
                     !.alerts_generated = summary.highConfidence,
                     !.completed_at = TRUE]
    ELSE row

\* variant: a failed terminal update ends the run with an error
CompleteJobAborting ==
    /\ pc = "complete-job"
    /\ \E ok \in BOOLEAN :
         /\ job' = updateProgress(job, 7, "Analysis Complete",
                                  Msg("Generated signals", Len(tradingSignals), 0, <<>>),
                                  "completed", ok)
         /\ progressOk' = (progressOk /\ ok)
         /\ pc' = IF ok THEN "final-statistics" ELSE "threw"
         /\ thrown' = IF ok THEN thrown ELSE "JobCreationError"
    /\ UNCHANGED << geminiResponse, topicResponse, coinIdx, results, fetchCalls,
                    socialMetrics, signalPromises, scoreCalls, scoreReturn,
                    tradingSignals, saveIdx, saveResults, insertCalls,
                    trading_signals, summary, alertCalls, alertPromises, sentCount >>

\* complete-job, first update: status completed, progress of step 7.
CompleteJob ==
    /\ pc = "complete-job"
    /\ \E ok \in BOOLEAN :
         /\ job' = updateProgress(job, 7, "Analysis Complete",
                                  Msg("Generated signals", Len(tradingSignals), 0, <<>>),
                                  "completed", ok)
         /\ progressOk' = (progressOk /\ ok)
    /\ pc' = "final-statistics"
    /\ UNCHANGED << geminiResponse, topicResponse, thrown, coinIdx, results, fetchCalls,
                    socialMetrics, signalPromises, scoreCalls, scoreReturn,
                    tradingSignals, saveIdx, saveResults, insertCalls,
                    trading_signals, summary, alertCalls, alertPromises, sentCount >>

\* complete-job, second update, then the workflow returns its result.
UpdateFinalStatistics ==
    /\ pc = "final-statistics"
    /\ \E ok \in BOOLEAN : job' = FinalStatistics(job, ok)
    /\ pc' = "returned"
    /\ UNCHANGED << geminiResponse, topicResponse, thrown, coinIdx, results, fetchCalls,
                    socialMetrics, signalPromises, scoreCalls, scoreReturn,
                    tradingSignals, saveIdx, saveResults, insertCalls,
                    trading_signals, summary, alertCalls, alertPromises, sentCount, progressOk >>

Init == InitWith(PipelineOutcomes)

\* POST /api/trigger: the candidate list is fetched and the event sent; when
\* both succeed the request is accepted with the job id and the workflow is
\* queued, otherwise the response is an error of status 500. The endpoint
\* itself writes nothing to the job store.
POST ==
    /\ pc = "POST"
    /\ \E listOk, sendOk \in BOOLEAN :
         pc' = IF listOk /\ sendOk THEN "initialize-job" ELSE "request-failed"
    /\ UNCHANGED << geminiResponse, topicResponse, job, thrown, coinIdx, results, fetchCalls,
                    socialMetrics, signalPromises, scoreCalls, scoreReturn,
                    tradingSignals, saveIdx, saveResults, insertCalls,
                    trading_signals, summary, alertCalls, alertPromises,
                    sentCount, progressOk >>

\* A request arrives; nothing of the run exists yet.
InitTrigger ==
    /\ topicResponse \in SeqsUpTo(TopicOutcomes, MaxCandidates)
    /\ geminiResponse = <<>>
    /\ job \in {NoJob, EarlierJob}
    /\ pc = "POST"
    /\ thrown = "none"
    /\ coinIdx = 1
    /\ results = <<>>
    /\ fetchCalls = <<>>
    /\ socialMetrics = <<>>
    /\ signalPromises = <<>>
    /\ scoreCalls = <<>>
    /\ scoreReturn = <<>>
    /\ tradingSignals = <<>>
    /\ saveIdx = 0
    /\ saveResults = <<>>
    /\ insertCalls = <<>>
    /\ trading_signals = <<>>
    /\ summary = NoSummary
    /\ alertCalls = <<>>
    /\ alertPromises = <<>>
    /\ sentCount = 0
    /\ progressOk = TRUE

\* The request and the first step of the workflow it queues.
NextTrigger ==
    \/ POST
    \/ InitializeJob

SpecTrigger == InitTrigger /\ [][NextTrigger]_vars

\* The select phase on its own, with every shape of provider response.
InitSelect == InitWith(TopicOutcomes)

NextSelect ==
    \/ InitializeJob
    \/ SelectStart
    \/ TestCoin
    \/ SelectFinish

Next ==
    \/ InitializeJob
    \/ SelectStart
    \/ TestCoin
    \/ SelectFinish
    \/ SignalsStart
    \/ \E i \in 1..TargetCoins : SignalSettles(i)
    \/ SignalsJoin
    \/ SaveStart
    \/ SaveOne
    \/ SaveFinish
    \/ GenerateSummary
    \/ SendNotifications
    \/ \E i \in 1..TargetCoins : AlertSettles(i)
    \/ NotificationsSettled
    \/ CompleteJob
    \/ UpdateFinalStatistics

Spec == Init /\ [][Next]_vars

\* The workflow runtime runs every step to its end and every awaited call
\* returns or rejects: a run that can take a step eventually takes one.
FairSpec == Init /\ [][Next]_vars /\ WF_vars(Next)

\* generate-summary on its own, applied to every sequence of up to
\* MaxSignals scored results; the symbol of a result is its position.
SummaryDecisions == {"BUY", "SELL", "HOLD"}

SummaryConfidences == {40, 70, 90, 95}

SummaryInputs ==
    { [i \in 1..Len(s) |-> [isNull |-> FALSE, symbol |-> i,
                             signal |-> s[i][1], confidence |-> s[i][2]]] :
        s \in SeqsUpTo(SummaryDecisions \X SummaryConfidences, MaxSignals) }

InitSummary ==
    /\ tradingSignals \in SummaryInputs
    /\ topicResponse = <<>>
    /\ geminiResponse = <<>>
    /\ job = updateProgress([NoJob EXCEPT !.exists = TRUE], 5, "Saving Results",
                            Msg("Storing", Len(tradingSignals), 0, <<>>),
                            "started", TRUE)
    /\ pc = "generate-summary"
    /\ thrown = "none"
    /\ coinIdx = 1
    /\ results = <<>>
    /\ fetchCalls = <<>>
    /\ socialMetrics = <<>>
    /\ signalPromises = tradingSignals
    /\ scoreCalls = Symbols(tradingSignals)
    /\ scoreReturn = [i \in 1..Len(tradingSignals) |->
                        [rejected |-> FALSE, signal |-> tradingSignals[i].signal,
                         confidence |-> tradingSignals[i].confidence]]
    /\ saveIdx = Len(tradingSignals)
    /\ saveResults = <<>>
    /\ insertCalls = <<>>
    /\ trading_signals = <<>>
    /\ summary = NoSummary
    /\ alertCalls = <<>>
    /\ alertPromises = <<>>
    /\ sentCount = 0
    /\ progressOk = TRUE

NextSummary == GenerateSummary

SpecSummary == InitSummary /\ [][NextSummary]_vars

SpecSelect == InitSelect /\ [][NextSelect]_vars

\* ------------------------------------------- the scorer (src/lib/gemini.ts)
\* longest digit string after "CONFIDENCE:" in a response of the AI service
MaxDigits == 3

Digits == {0, 1, 9}

\* the non-empty digit strings the pattern \d+ can capture
DigitStrings == SeqsUpTo(Digits, MaxDigits) \ {<<>>}

\* the word after "SIGNAL:" as the service wrote it; the pattern ignores case
SignalWords == {"BUY", "sell", "Hold"}

\* A response text, reduced to what the two patterns of parseSignalResponse
\* capture: signal "none" and confidence <<>> stand for no match.
AiResponses ==
    [isString : {TRUE}, signal : SignalWords \cup {"none"},
     confidence : DigitStrings \cup {<<>>}]

\* response.text() yielding something that is not a string
NotAString == [isString |-> FALSE, signal |-> "none", confidence |-> <<>>]

\* What the AI service does for one call: the client cannot be constructed
\* (no API key), generateContent rejects, response.text() throws, or a
\* response arrives.
AiFailures ==
    { [stage |-> st, response |-> NotAString] : st \in {"client", "call", "text"} }

AiOutcomes ==
    AiFailures \cup { [stage |-> "ok", response |-> r] : r \in AiResponses \cup {NotAString} }

MathMax(a, b) == IF a > b THEN a ELSE b

MathMin(a, b) == IF a < b THEN a ELSE b

\* String.prototype.toUpperCase on the captured word
ToUpperCase(word) ==
    CASE word = "sell" -> "SELL"
      [] word = "Hold" -> "HOLD"
      [] word = "buy"  -> "BUY"
      [] OTHER -> word

\* parseInt of a string of decimal digits
RECURSIVE ParseInt(_)
ParseInt(digits) ==
    IF digits = <<>> THEN 0
    ELSE 10 * ParseInt(SubSeq(digits, 1, Len(digits) - 1)) + digits[Len(digits)]

\* variant: the engagement ratio is truncated to an integer
createFallbackSignalTruncating(symbol, metrics) ==
    LET engagementRatio  == metrics.interactions \div MathMax(metrics.mentions, 1)
        isHighEngagement == engagementRatio > 100
        isGoodRank       == metrics.altRank < 100
        isHealthy        == metrics.galaxyScore > 70
        hasGoodCreators  == metrics.creators > 1000
        indicators == <<isHighEngagement, isGoodRank, isHealthy, hasGoodCreators>>
        positiveSignals == Cardinality({k \in DOMAIN indicators : indicators[k]})
    IN  IF positiveSignals >= 3
        THEN [rejected |-> FALSE, signal |-> "BUY",
              confidence |-> 60 + positiveSignals * 10]
        ELSE IF positiveSignals <= 1
             THEN [rejected |-> FALSE, signal |-> "SELL", confidence |-> 60]
             ELSE [rejected |-> FALSE, signal |-> "HOLD", confidence |-> 50]

\* createFallbackSignal: the rule-based signal. The engagement ratio is the
\* quotient interactions / max(mentions, 1), kept as a fraction; comparing
\* it with 100 is comparing the numerator with 100 times the denominator.
createFallbackSignal(symbol, metrics) ==
    LET engagementRatio  == [num |-> metrics.interactions,
                             den |-> MathMax(metrics.mentions, 1)]
        isHighEngagement == engagementRatio.num > 100 * engagementRatio.den
        isGoodRank       == metrics.altRank < 100
        isHealthy        == metrics.galaxyScore > 70
        hasGoodCreators  == metrics.creators > 1000
        indicators == <<isHighEngagement, isGoodRank, isHealthy, hasGoodCreators>>
        positiveSignals == Cardinality({k \in DOMAIN indicators : indicators[k]})
    IN  IF positiveSignals >= 3
        THEN [rejected |-> FALSE, signal |-> "BUY",
              confidence |-> 60 + positiveSignals * 10]
        ELSE IF positiveSignals <= 1
             THEN [rejected |-> FALSE, signal |-> "SELL", confidence |-> 60]
             ELSE [rejected |-> FALSE, signal |-> "HOLD", confidence |-> 50]

\* variant: the parsed confidence is used as it is
parseSignalResponseUnclamped(aiResponse, symbol, metrics) ==
    IF ~aiResponse.isString
    THEN createFallbackSignal(symbol, metrics)
    ELSE [rejected |-> FALSE,
          signal |-> IF aiResponse.signal # "none"
                     THEN ToUpperCase(aiResponse.signal) ELSE "HOLD",
          confidence |-> ParseInt(IF aiResponse.confidence # <<>>
                                  THEN aiResponse.confidence ELSE <<5, 0>>)]

\* parseSignalResponse: signal and confidence from the two patterns, with
\* the defaults HOLD and '50', the confidence clamped; an exception while
\* matching gives the fallback signal.
parseSignalResponse(aiResponse, symbol, metrics) ==
    IF ~aiResponse.isString
    THEN createFallbackSignal(symbol, metrics)
    ELSE LET confidence == ParseInt(IF aiResponse.confidence # <<>>
                                    THEN aiResponse.confidence ELSE <<5, 0>>)
         IN  [rejected |-> FALSE,
              signal |-> IF aiResponse.signal # "none"
                         THEN ToUpperCase(aiResponse.signal) ELSE "HOLD",
              confidence |-> MathMax(0, MathMin(100, confidence))]

\* variant: a client that cannot be constructed makes the call reject
generateTradingSignalRejecting(symbol, currentMetrics, ai) ==
    IF ai.stage = "client"
    THEN Rejected
    ELSE IF ai.stage \in {"call", "text"}
         THEN createFallbackSignal(symbol, currentMetrics)
         ELSE parseSignalResponse(ai.response, symbol, currentMetrics)

\* generateTradingSignal: everything up to the parsed signal is inside one
\* try block whose catch returns the fallback signal.
generateTradingSignal(symbol, currentMetrics, ai) ==
    IF ai.stage \in {"client", "call", "text"}
    THEN createFallbackSignal(symbol, currentMetrics)
    ELSE parseSignalResponse(ai.response, symbol, currentMetrics)

\* One generateTradingSignal call settles with what gemini.ts computes from
\* the item's metrics and the behaviour of the AI service for that call.
SignalResolves(i) ==
    /\ i \in DOMAIN signalPromises
    /\ signalPromises[i] = Pending
    /\ i \in DOMAIN geminiResponse
    /\ LET HasMetrics(r) == r.success
           successfulMetrics == SelectSeq(socialMetrics, HasMetrics)
           outcome == generateTradingSignal(successfulMetrics[i].symbol,
                                            successfulMetrics[i].metrics,
                                            geminiResponse[i])
       IN  /\ scoreReturn' = [scoreReturn EXCEPT ![i] = outcome]
           /\ signalPromises' =
                [signalPromises EXCEPT ![i] = CatchToNull(scoreCalls[i], outcome)]
    /\ UNCHANGED << geminiResponse, topicResponse, job, pc, thrown, coinIdx, results,
                    fetchCalls, socialMetrics, scoreCalls, tradingSignals, saveIdx,
                    saveResults, insertCalls, trading_signals, summary,
                    alertCalls, alertPromises, sentCount, progressOk >>

\* The metrics generateTradingSignal is explored with on its own: every
\* indicator of the fallback rule on either side of its threshold.
SignalMetrics ==
    [mentions : {0, 10}, interactions : {100, 101, 1000, 1001},
     creators : {1000, 1001}, altRank : {99, 100}, galaxyScore : {70, 71}]

\* The inputs used when several items are scored together.
FewMetrics ==
    { [mentions |-> 0, interactions |-> 101, creators |-> 1001,
       altRank |-> 99, galaxyScore |-> 71],
      [mentions |-> 10, interactions |-> 1000, creators |-> 1000,
       altRank |-> 100, galaxyScore |-> 70] }

FewAiOutcomes ==
    { [stage |-> "client", response |-> NotAString],
      [stage |-> "ok", response |-> NotAString],
      [stage |-> "ok",
       response |-> [isString |-> TRUE, signal |-> "BUY", confidence |-> <<9, 0>>]] }

\* A selected item as select-and-fetch-data returns it
SelectedItem(symbol, m) ==
    [symbol |-> symbol,
     metrics |-> [symbol |-> symbol, mentions |-> m.mentions,
                  interactions |-> m.interactions, creators |-> m.creators,
                  altRank |-> m.altRank, galaxyScore |-> m.galaxyScore],
     success |-> TRUE]

\* The scoring step on its own: one to TargetCoins selected items, one item
\* with every metrics and every behaviour of the AI service, several items
\* with a few of each.
InitSignal ==
    /\ \E n \in 1..TargetCoins :
         \E ms \in [1..n -> IF n = 1 THEN SignalMetrics ELSE FewMetrics] :
           /\ socialMetrics = [i \in 1..n |-> SelectedItem(i, ms[i])]
           /\ geminiResponse \in [1..n -> IF n = 1 THEN AiOutcomes ELSE FewAiOutcomes]
    /\ topicResponse = <<>>
    /\ job = updateProgress([NoJob EXCEPT !.exists = TRUE], 3, "Selection Complete",
                            Msg("Selected", Len(socialMetrics), 0, Symbols(socialMetrics)),
                            "started", TRUE)
    /\ pc = "generate-ai-signals"
    /\ thrown = "none"
    /\ coinIdx = 1
    /\ results = socialMetrics
    /\ fetchCalls = Symbols(socialMetrics)
    /\ signalPromises = <<>>
    /\ scoreCalls = <<>>
    /\ scoreReturn = <<>>
    /\ tradingSignals = <<>>
    /\ saveIdx = 0
    /\ saveResults = <<>>
    /\ insertCalls = <<>>
    /\ trading_signals = <<>>
    /\ summary = NoSummary
    /\ alertCalls = <<>>
    /\ alertPromises = <<>>
    /\ sentCount = 0
    /\ progressOk = TRUE

NextSignal ==
    \/ SignalsStart
    \/ \E i \in 1..TargetCoins : SignalResolves(i)
    \/ SignalsJoin

SpecSignal == InitSignal /\ [][NextSignal]_vars

\* ------------------------------------------------- vocabulary of the claims
\* A candidate is complete when its request succeeded and at least one of
\* the three counters of the response is positive.
ProviderComplete(i) ==
    /\ topicResponse[i].ok
    /\ topicResponse[i].data.mentions + topicResponse[i].data.interactions
         + topicResponse[i].data.creators > 0

CompleteCandidates == SelectSeq(candidateCoins, ProviderComplete)

Min(a, b) == IF a < b THEN a ELSE b

SelectThrew ==
    /\ pc = "threw"
    /\ thrown \in {"No candidate coins provided",
                   "No coins with complete social data found in top 10"}

SelectReturned == pc = "generate-ai-signals"

\* The results of the scoring calls that did not reject, in input order.
ScoredIndexes ==
    SelectSeq([i \in 1..Len(scoreReturn) |-> i],
              LAMBDA i : scoreReturn[i] # NotReturned /\ ~scoreReturn[i].rejected)

ScoredSignals ==
    [k \in 1..Len(ScoredIndexes) |->
        [isNull |-> FALSE, symbol |-> scoreCalls[ScoredIndexes[k]],
         signal |-> scoreReturn[ScoredIndexes[k]].signal,
         confidence |-> scoreReturn[ScoredIndexes[k]].confidence]]

RejectedCount ==
    Cardinality({i \in DOMAIN scoreReturn : scoreReturn[i].rejected})

\* The number of phases of the driving sequence that have finished:
\* 1 initialize, 2 select-and-fetch, 3 score, 4 write, 5 summarize,
\* 6 notify, 7 complete.
PhasesFinished ==
    CASE pc = "select-start"        -> 1
      [] pc = "generate-ai-signals" -> 2
      [] pc = "save-to-database"    -> 3
      [] pc = "generate-summary"    -> 4
      [] pc = "send-notifications"  -> 5
      [] pc = "complete-job"        -> 6
      [] pc = "returned"            -> 7
      [] OTHER                      -> 0

\* ------------------------------------------------------------------ claims
\* C1: when a phase after initialize raises a fatal error (empty candidate
\* list, no candidate with complete metrics), the error is caught at the
\* orchestrator boundary and the job row ends with status failed.
C1_FatalErrorMarksJobFailed ==
    SelectThrew => (job.exists /\ job.status = "failed")

\* C2: once the job row is completed or failed, no later write changes its
\* status, current_step, step_message or progress_percentage.
C2_TerminalJobIsFrozen ==
    [][ job.status \in {"completed", "failed"}
          => /\ job'.status = job.status
             /\ job'.current_step = job.current_step
             /\ job'.step_message = job.step_message
             /\ job'.progress_percentage = job.progress_percentage ]_vars

\* A row this run has completed and then written its statistics to.
C2_Witness ==
    /\ pc = "returned"
    /\ job.status = "completed"
    /\ Len(scoreCalls) > 0
    /\ job.signals_generated = Len(tradingSignals)
    /\ job.signals_generated > 0

\* C3: over one run, failed progress writes included, the stored
\* progress_percentage never decreases from the initialize insert on.
C3_ProgressNeverDecreases ==
    [][ (job.exists /\ job'.exists)
          => job'.progress_percentage >= job.progress_percentage ]_vars

\* A run that lost a progress write and still reached 100.
C3_Witness ==
    /\ pc = "returned"
    /\ ~progressOk
    /\ job.progress_percentage = 100
    /\ Len(scoreCalls) > 0

\* C4 as stated: after phase k of the seven phases of the driving sequence
\* the stored progress is round(100 * k / 7).
C4_ProgressIsPhaseOverSeven ==
    (progressOk /\ PhasesFinished > 0)
        => job.progress_percentage = (200 * PhasesFinished + 7) \div 14

\* C4 amended: with no progress write lost, the stored progress after the
\* phases initialize, select-and-fetch, score, write, summarize, notify,
\* complete is 14, 43, 57, 71, 86, 86, 100: round(100 * s / 7) for the step
\* numbers s = 1, 3, 4, 5, 6, 6, 7 the code passes.
C4_ProgressFollowsStepNumbers ==
    (progressOk /\ PhasesFinished > 0)
        => job.progress_percentage
             = <<14, 43, 57, 71, 86, 86, 100>>[PhasesFinished]

C4_Witness ==
    /\ progressOk
    /\ PhasesFinished = 5
    /\ job.progress_percentage = 86
    /\ Len(tradingSignals) > 0

\* C5: if some candidate has a positive counter, the select phase returns
\* between one and three items, each with a positive counter, whatever the
\* other requests do.
C5_SelectReturnsCompleteItems ==
    ((SelectReturned \/ SelectThrew) /\ Len(CompleteCandidates) > 0)
        => /\ SelectReturned
           /\ Len(socialMetrics) >= 1
           /\ Len(socialMetrics) <= 3
           /\ \A k \in DOMAIN socialMetrics :
                socialMetrics[k].metrics.mentions
                  + socialMetrics[k].metrics.interactions
                  + socialMetrics[k].metrics.creators > 0

\* The phase returned although one request failed and one had no data, and
\* the only complete candidate has a single positive counter.
C5_Witness ==
    /\ SelectReturned
    /\ Len(socialMetrics) = 1
    /\ socialMetrics[1].metrics.mentions + socialMetrics[1].metrics.interactions
         + socialMetrics[1].metrics.creators = 1
    /\ \E i \in DOMAIN topicResponse : ~topicResponse[i].ok
    /\ \E i \in DOMAIN topicResponse :
         topicResponse[i].ok /\ topicResponse[i].data = Zeros

\* C6: the select phase returns the first min(3, number of complete
\* candidates) complete candidates in input order, with their metrics, and
\* fetches no candidate after the one that completed the target.
C6_SelectIsFirstCompletePrefix ==
    SelectReturned
        => /\ Symbols(socialMetrics)
                = SubSeq(CompleteCandidates, 1, Min(3, Len(CompleteCandidates)))
           /\ \A k \in DOMAIN socialMetrics :
                /\ socialMetrics[k].metrics.mentions
                     = topicResponse[socialMetrics[k].symbol].data.mentions
                /\ socialMetrics[k].metrics.interactions
                     = topicResponse[socialMetrics[k].symbol].data.interactions
                /\ socialMetrics[k].metrics.creators
                     = topicResponse[socialMetrics[k].symbol].data.creators
           /\ fetchCalls
                = [i \in 1..(IF Len(CompleteCandidates) >= 3
                             THEN CompleteCandidates[3]
                             ELSE Len(topicResponse)) |-> i]

\* Three were found and a later candidate, complete itself, was never
\* fetched.
C6_Witness ==
    /\ SelectReturned
    /\ Len(socialMetrics) = 3
    /\ Len(fetchCalls) < Len(topicResponse)
    /\ ProviderComplete(Len(topicResponse))

\* C7: for a non-empty candidate list in which every request fails or
\* returns only zero counters, the select phase fails with the
\* insufficient-data error after fetching every candidate, no scoring call
\* is made and no signal is persisted.
C7_AllZeroIsInsufficientData ==
    (Len(topicResponse) > 0 /\ Len(CompleteCandidates) = 0)
        => /\ pc \in {"initialize-job", "select-start", "select-loop", "threw"}
           /\ (pc = "threw" /\ thrown # "JobCreationError")
                => /\ thrown = "No coins with complete social data found in top 10"
                   /\ fetchCalls = candidateCoins
           /\ scoreCalls = <<>>
           /\ insertCalls = <<>>
           /\ trading_signals = <<>>

C7_Witness ==
    /\ Len(topicResponse) >= 3
    /\ Len(CompleteCandidates) = 0
    /\ \E i \in DOMAIN topicResponse : ~topicResponse[i].ok
    /\ \E i \in DOMAIN topicResponse : topicResponse[i].ok
    /\ pc = "threw"
    /\ thrown = "No coins with complete social data found in top 10"

\* C8: with N items scored and K scoring calls rejecting, the scoring phase
\* returns exactly the N - K results of the other calls, each as its own
\* call yielded it, and the phase itself does not throw.
C8_ScoringDropsOnlyFailures ==
    /\ (pc = "await-signals" /\ AllSettled(signalPromises)) => ENABLED SignalsJoin
    /\ pc = "save-to-database"
         => /\ Len(scoreCalls) = Len(socialMetrics)
            /\ tradingSignals = ScoredSignals
            /\ Len(tradingSignals) = Len(scoreCalls) - RejectedCount
            /\ thrown = "none"

\* Three items, the second call rejected, the other two results returned.
C8_Witness ==
    /\ pc = "save-to-database"
    /\ Len(scoreCalls) = 3
    /\ scoreReturn[2].rejected
    /\ Len(tradingSignals) = 2
    /\ tradingSignals[1].symbol = scoreCalls[1]
    /\ tradingSignals[2].symbol = scoreCalls[3]

\* C9: nothing of a later phase (the AI Analysis Complete update, a signal
\* insert, the summary, an alert, the completion) happens before every
\* scoring call that was launched has settled.
C9_JoinBeforeLaterPhases ==
    (\/ pc \in {"save-to-database", "save-loop", "generate-summary",
                "send-notifications", "complete-job", "final-statistics",
                "returned"}
     \/ job.current_step = "AI Analysis Complete"
     \/ insertCalls # <<>>
     \/ summary # NoSummary
     \/ alertCalls # <<>>)
        => /\ Len(scoreReturn) = Len(socialMetrics)
           /\ Len(scoreReturn) > 0
           /\ \A i \in DOMAIN scoreReturn : scoreReturn[i] # NotReturned

\* The join was passed with three calls, of which some rejected.
C9_Witness ==
    /\ pc = "save-to-database"
    /\ Len(scoreReturn) = 3
    /\ scoreReturn[1].rejected
    /\ ~scoreReturn[3].rejected
    /\ job.current_step = "AI Analysis Complete"

\* C10: the write phase issues one insert per scored result, in order and
\* without retry, and returns one (symbol, success) entry per result in the
\* same order with success true exactly when the insert succeeded; a failed
\* insert stops neither the later inserts nor the job.
C10_OneInsertPerSignal ==
    /\ Len(insertCalls) <= Len(ScoredSignals)
    /\ \A i \in DOMAIN insertCalls : insertCalls[i].symbol = ScoredSignals[i].symbol
    /\ Len(saveResults) = Len(insertCalls)
    /\ \A i \in DOMAIN saveResults :
         /\ saveResults[i].symbol = insertCalls[i].symbol
         /\ saveResults[i].success = insertCalls[i].ok
    /\ Symbols(trading_signals)
         = Symbols(SelectSeq(insertCalls, LAMBDA c : c.ok))
    /\ pc \in {"generate-summary", "send-notifications", "complete-job",
               "final-statistics", "returned"}
         => /\ Len(insertCalls) = Len(ScoredSignals)
            /\ thrown = "none"

\* Three results, the insert of the second failed, the third was attempted.
C10_Witness ==
    /\ pc = "generate-summary"
    /\ Len(saveResults) = 3
    /\ saveResults[1].success
    /\ ~saveResults[2].success
    /\ saveResults[3].success
    /\ Len(trading_signals) = 2

\* The run returned, its statistics update reached the row, and at least one
\* insert of a scored result had failed.
StatisticsWrittenAfterFailedInsert ==
    /\ pc = "returned"
    /\ job.completed_at
    /\ \E i \in DOMAIN insertCalls : ~insertCalls[i].ok

\* C11 as stated: when some result writes fail the job is still completed
\* and signals_generated is the number of results whose write succeeded.
C11_SignalsGeneratedCountsPersisted ==
    (StatisticsWrittenAfterFailedInsert /\ progressOk)
        => /\ job.status = "completed"
           /\ job.signals_generated = Len(trading_signals)

\* C11 amended: when some result writes fail the run still returns, the row
\* is completed if its status write succeeded, and signals_generated is the
\* number of results scored (every one of which was attempted), which is
\* larger than the number persisted.
C11_SignalsGeneratedCountsAttempted ==
    StatisticsWrittenAfterFailedInsert
        => /\ thrown = "none"
           /\ progressOk => job.status = "completed"
           /\ job.signals_generated = Len(insertCalls)
           /\ job.signals_generated > Len(trading_signals)

\* Three scored, the second insert failed: signals_generated is 3.
C11_Witness ==
    /\ StatisticsWrittenAfterFailedInsert
    /\ job.status = "completed"
    /\ Len(insertCalls) = 3
    /\ insertCalls[1].ok /\ ~insertCalls[2].ok /\ insertCalls[3].ok
    /\ job.signals_generated = 3

\* C12: the signals_generated the complete phase writes is the number of
\* results the scoring phase returned, whichever inserts succeeded.
C12_SignalsGeneratedCountsScored ==
    (pc = "returned" /\ job.completed_at)
        => job.signals_generated = Len(scoreCalls) - RejectedCount

\* One call rejected, every insert failed, two signals counted.
C12_Witness ==
    /\ pc = "returned"
    /\ job.completed_at
    /\ Len(scoreCalls) = 3
    /\ RejectedCount = 1
    /\ trading_signals = <<>>
    /\ job.signals_generated = 2

Range(seq) == { seq[i] : i \in DOMAIN seq }

\* a ranks before b: higher confidence, or equal confidence and earlier in
\* the fan-out order (the symbol of a result is its position in that order)
RanksBefore(a, b) ==
    \/ a.confidence > b.confidence
    \/ (a.confidence = b.confidence /\ a.symbol < b.symbol)

\* C13: for every sequence of scored results the summary has totalAnalyzed =
\* its length, highConfidence = the number with confidence >= 70, decision
\* counts adding up to totalAnalyzed, and as topSignals the min(3, length)
\* results of highest confidence, descending, ties in fan-out order; all
\* counts are zero and topSignals is empty for the empty sequence.
C13_SummaryOfScoredResults ==
    pc = "send-notifications"
        => LET n   == Len(tradingSignals)
               top == summary.topSignals
           IN  /\ summary.totalAnalyzed = n
               /\ summary.highConfidence
                    = Cardinality({i \in 1..n : tradingSignals[i].confidence >= 70})
               /\ summary.BUY + summary.SELL + summary.HOLD = n
               /\ summary.BUY = Cardinality({i \in 1..n : tradingSignals[i].signal = "BUY"})
               /\ Len(top) = Min(3, n)
               /\ \A k \in DOMAIN top : top[k] \in Range(tradingSignals)
               /\ \A k, l \in DOMAIN top : k < l => RanksBefore(top[k], top[l])
               /\ \A k \in DOMAIN top :
                    \A s \in Range(tradingSignals) \ Range(top) : RanksBefore(top[k], s)
               /\ n = 0 => /\ summary.highConfidence = 0
                           /\ summary.BUY = 0 /\ summary.SELL = 0 /\ summary.HOLD = 0
                           /\ top = <<>>

\* Confidences 90, 40, 70, 95 give the top three 95, 90, 70.
C13_Witness ==
    /\ pc = "send-notifications"
    /\ Symbols(summary.topSignals) = <<4, 1, 3>>
    /\ summary.topSignals[1].confidence = 95
    /\ summary.topSignals[2].confidence = 90
    /\ summary.topSignals[3].confidence = 70
    /\ summary.totalAnalyzed = 4
    /\ summary.highConfidence = 3

\* C14: the summarize phase has no side effect: the sequence of scored
\* results the orchestrator holds is the same, in content and order, after
\* it as before, so that notify and complete see what the write phase saw.
C14_SummarizeLeavesResultsUnchanged ==
    [][ pc = "generate-summary" => tradingSignals' = tradingSignals ]_vars

\* The symbols of the scored results with confidence of at least 70.
HighConfidenceSymbols ==
    { ScoredSignals[k].symbol : k \in { j \in DOMAIN ScoredSignals :
                                          ScoredSignals[j].confidence >= 70 } }

\* C15: a progress write that fails never aborts the pipeline: whichever
\* progress writes fail, the run ends as the provider, scorer and store
\* outcomes alone determine, with the same fetch, score, insert and alert
\* calls and the same summary.
C15_ProgressFailuresChangeNothing ==
    /\ pc = "threw"
         => \/ thrown = "JobCreationError"
            \/ (thrown = "No candidate coins provided" /\ Len(topicResponse) = 0)
            \/ /\ thrown = "No coins with complete social data found in top 10"
               /\ Len(topicResponse) > 0
               /\ Len(CompleteCandidates) = 0
    /\ pc = "returned"
         => /\ fetchCalls
                 = [i \in 1..(IF Len(CompleteCandidates) >= 3
                              THEN CompleteCandidates[3]
                              ELSE Len(topicResponse)) |-> i]
            /\ scoreCalls
                 = SubSeq(CompleteCandidates, 1, Min(3, Len(CompleteCandidates)))
            /\ Symbols(insertCalls) = Symbols(ScoredSignals)
            /\ Range(alertCalls) = HighConfidenceSymbols
            /\ Len(alertCalls) = Cardinality(HighConfidenceSymbols)
            /\ summary.totalAnalyzed = Len(ScoredSignals)
            /\ summary.highConfidence = Cardinality(HighConfidenceSymbols)

\* Every progress write of the run failed (the row is still as inserted),
\* and the run scored, inserted, alerted and returned.
C15_Witness ==
    /\ pc = "returned"
    /\ job.progress_percentage = 14
    /\ job.current_step = "Initializing Analysis"
    /\ Len(insertCalls) = 3
    /\ Len(alertCalls) >= 1
    /\ summary.totalAnalyzed = 3

\* C16: if the initialize insert fails, because a row with the id exists or
\* because the write fails, the run ends there: no fetch, scoring call,
\* insert, alert or job update is made, and a row that existed is unchanged.
C16_FailedInitializeAbortsRun ==
    [][ /\ (pc = "initialize-job" /\ job.exists)
             => (pc' = "threw" /\ thrown' = "JobCreationError")
        /\ (pc = "initialize-job" /\ pc' # "threw")
             => (job'.exists /\ job'.status = "started")
        /\ (pc' = "threw" /\ thrown' = "JobCreationError")
             => /\ pc = "initialize-job"
                /\ job' = job
                /\ fetchCalls' = <<>> /\ scoreCalls' = <<>> /\ insertCalls' = <<>>
                /\ alertCalls' = <<>> /\ trading_signals' = <<>>
                /\ progressOk'
        /\ pc = "threw" => UNCHANGED vars ]_vars

\* The run met a completed row with its id and ended without touching it.
C16_Witness ==
    /\ pc = "threw"
    /\ thrown = "JobCreationError"
    /\ job = EarlierJob
    /\ Len(topicResponse) > 0

\* The end-to-end success scenario, as far as the run has got: more
\* candidates than the target, the first three with non-zero metrics, the job
\* insert and every job update succeeded, no scoring call rejected, no
\* insert of a result failed.
SuccessScenario ==
    /\ Len(topicResponse) > 3
    /\ \A i \in 1..3 : ProviderComplete(i)
    /\ pc # "initialize-job"
    /\ thrown # "JobCreationError"
    /\ progressOk
    /\ \A i \in DOMAIN scoreReturn : ~scoreReturn[i].rejected
    /\ \A i \in DOMAIN insertCalls : insertCalls[i].ok
    /\ pc = "returned" => job.completed_at

SuccessOutcome ==
    /\ pc # "threw"
    /\ pc = "returned"
         => /\ Symbols(socialMetrics) = <<1, 2, 3>>
            /\ fetchCalls = <<1, 2, 3>>
            /\ Len(trading_signals) = 3
            /\ Range(Symbols(trading_signals)) = {1, 2, 3}
            /\ summary.totalAnalyzed = 3
            /\ job.progress_percentage = 100

\* C17 as stated: in the success scenario exactly the first three candidates
\* are selected in order, three results are inserted, summary.totalAnalyzed
\* is 3, and the status of the job is pending at acceptance, running while
\* the phases run and completed at the end, with progress 100.
C17_StatusPendingRunningCompleted ==
    SuccessScenario
        => /\ SuccessOutcome
           /\ pc = "select-start" => job.status = "pending"
           /\ pc \notin {"select-start", "final-statistics", "returned", "threw"}
                => job.status = "running"
           /\ pc \in {"final-statistics", "returned"} => job.status = "completed"

\* C17 amended: as stated, except that the status of the job is started from
\* acceptance until the complete phase and completed after it.
C17_StatusStartedCompleted ==
    SuccessScenario
        => /\ SuccessOutcome
           /\ pc \notin {"final-statistics", "returned", "threw"}
                => job.status = "started"
           /\ pc \in {"final-statistics", "returned"} => job.status = "completed"

C17_Witness ==
    /\ SuccessScenario
    /\ pc = "returned"
    /\ Len(topicResponse) = 4
    /\ job.status = "completed"
    /\ job.progress_percentage = 100
    /\ job.signals_generated = 3
    /\ Len(trading_signals) = 3

\* C18 as stated: once the initialize phase has succeeded, the job
\* eventually has the status completed or failed. A failed job update is
\* set aside here (the status then stays as it was, see C19), so what is left
\* is the run whose writes all succeed.
C18_JobEventuallyTerminal ==
    (pc = "select-start" /\ job.exists)
        ~> (job.status \in {"completed", "failed"} \/ ~progressOk)

\* C19: when the update of the complete phase that writes the terminal status
\* fails, the job row keeps the non-terminal status it had while the run was
\* going (the row is otherwise untouched by that update), and the workflow
\* still goes on to its return statement without an error, returning the
\* scored results' count and the summary as they were.
C19_FailedTerminalWriteStillReturns ==
    [][ /\ pc = "complete-job"
          => /\ pc' = "final-statistics"
             /\ thrown' = "none"
             /\ job'.status # "completed"
                  => /\ job' = job
                     /\ job'.status = "started"
                     /\ ~progressOk'
        /\ pc = "final-statistics"
          => /\ pc' = "returned"
             /\ thrown' = "none"
             /\ job'.status = job.status
             /\ summary' = summary
             /\ tradingSignals' = tradingSignals
             /\ summary.totalAnalyzed = Len(tradingSignals)
      ]_vars

\* A run that returned although its terminal update failed: the row still
\* shows the non-terminal status, and an earlier progress value.
C19_Witness ==
    /\ pc = "returned"
    /\ thrown = "none"
    /\ job.exists
    /\ job.status = "started"
    /\ job.progress_percentage = 86
    /\ summary.totalAnalyzed = 3

\* C20: the notify phase calls the notification capability once for each
\* scored result of confidence 70 or more and for no other result, and not
\* before that phase; whichever of these calls return false or reject, the
\* run raises no error, the wait for them can always go on to the complete
\* phase, and the job reaches completed when its terminal update succeeds.
C20_AlertsBestEffort ==
    /\ pc \in {"await-alerts", "complete-job", "final-statistics", "returned"}
         => /\ Len(alertCalls) = Cardinality(Range(alertCalls))
            /\ Range(alertCalls) = HighConfidenceSymbols
            /\ thrown = "none"
    /\ pc \notin {"await-alerts", "complete-job", "final-statistics", "returned"}
         => alertCalls = <<>>
    /\ pc = "await-alerts"
         => /\ Len(alertPromises) = Len(alertCalls)
            /\ ENABLED (NotificationsSettled \/ \E i \in 1..TargetCoins : AlertSettles(i))
            /\ (\A i \in DOMAIN alertPromises : alertPromises[i] # "pending")
                 => ENABLED NotificationsSettled
    /\ pc \in {"complete-job", "final-statistics", "returned"}
         => /\ alertPromises = <<>>
            /\ sentCount <= Len(alertCalls)
    /\ (pc \in {"final-statistics", "returned"} /\ progressOk)
         => job.status = "completed"

\* A completed job two of whose alerts were attempted and at least one of
\* which failed.
C20_Witness ==
    /\ pc = "returned"
    /\ job.status = "completed"
    /\ Len(alertCalls) >= 2
    /\ sentCount < Len(alertCalls)
    /\ \E k \in DOMAIN ScoredSignals : ScoredSignals[k].confidence < 70

\* Some concurrent scoring task or notification task has been started and
\* has not settled yet.
TasksRunning ==
    \/ \E i \in DOMAIN signalPromises : signalPromises[i] = Pending
    \/ \E i \in DOMAIN alertPromises : alertPromises[i] = "pending"

\* C21: job writes are serialized: a step writes to the job row (with or
\* without success) only when no scoring task and no notification task is
\* running, the steps of those tasks never write to the job row, and tasks
\* run only while the workflow waits for them.
C21_JobWritesSerialized ==
    [][ /\ (job' # job \/ progressOk' # progressOk) => ~TasksRunning
        /\ TasksRunning => (job' = job /\ progressOk' = progressOk)
        /\ TasksRunning => pc \in {"await-signals", "await-alerts"}
        /\ (pc = "await-signals" /\ pc' = pc) => job' = job
        /\ (pc = "await-alerts" /\ pc' = pc) => job' = job
      ]_vars

\* Scoring under way: one task settled, another still running, the row as
\* the update before the fan-out left it.
C21_Witness ==
    /\ pc = "await-signals"
    /\ \E i \in DOMAIN signalPromises : signalPromises[i] = Pending
    /\ \E i \in DOMAIN signalPromises : signalPromises[i] # Pending
    /\ job.current_step = "AI Signal Generation"
    /\ job.progress_percentage = 57

\* The trigger endpoint has answered with success and a job id.
Accepted == pc \notin {"POST", "request-failed"}

\* C22 as stated, read in the claim's favour: once a request has been
\* accepted and the workflow's first step is over, a job row with the
\* returned id exists in a non-terminal state. (The claim asks for the row
\* from the moment of acceptance on, which is stronger.)
C22_AcceptedJobIsObservable ==
    (Accepted /\ pc # "initialize-job")
        => /\ job.exists
           /\ job.status \in {"pending", "running", "started"}

\* C23: with an empty candidate list the select phase ends with the
\* no-candidates error, and no metrics fetch, scoring call, result insert or
\* notification call is ever made in the run; that error is raised for no
\* other list.
C23_NoCandidatesFailsBeforeAnyFetch ==
    /\ Len(candidateCoins) = 0
         => /\ fetchCalls = <<>>
            /\ scoreCalls = <<>>
            /\ insertCalls = <<>>
            /\ trading_signals = <<>>
            /\ alertCalls = <<>>
            /\ pc \in {"initialize-job", "select-start", "threw"}
            /\ pc = "threw"
                 => thrown \in {"JobCreationError", "No candidate coins provided"}
            /\ (pc = "threw" /\ job.exists /\ job.status = "started")
                 => thrown = "No candidate coins provided"
    /\ thrown = "No candidate coins provided"
         => (Len(candidateCoins) = 0 /\ pc = "threw")

C23_Witness ==
    /\ pc = "threw"
    /\ thrown = "No candidate coins provided"
    /\ Len(candidateCoins) = 0
    /\ job.exists
    /\ job.current_step = "Selecting Best Coins"
    /\ fetchCalls = <<>>

\* The phase a position of the workflow belongs to: 1 initialize, 2 select
\* and fetch, 3 score, 4 write, 5 summarize, 6 notify, 7 complete, 8 after
\* the return; 0 for a run that ended with an error.
PhaseRank(p) ==
    CASE p = "initialize-job" -> 1
      [] p \in {"select-start", "select-loop"} -> 2
      [] p \in {"generate-ai-signals", "await-signals"} -> 3
      [] p \in {"save-to-database", "save-loop"} -> 4
      [] p = "generate-summary" -> 5
      [] p \in {"send-notifications", "await-alerts"} -> 6
      [] p \in {"complete-job", "final-statistics"} -> 7
      [] p = "returned" -> 8
      [] OTHER -> 0

\* The position at which each phase is entered.
PhaseEntries ==
    {"select-start", "generate-ai-signals", "save-to-database",
     "generate-summary", "send-notifications", "complete-job"}

\* C24: phases run in the order initialize, select-and-fetch, score, write,
\* summarize, notify, complete: every step stays in its phase, moves to the
\* next one or ends the run with an error; a phase is entered only from the
\* phase before it; no metrics fetch happens once a scoring call was made,
\* no scoring call once a result insert was made, no result insert once the
\* summary was computed, and none of these calls before its own phase.
C24_PhasesInOrder ==
    [][ /\ pc' # "threw"
          => /\ PhaseRank(pc') \in {PhaseRank(pc), PhaseRank(pc) + 1}
             /\ (pc' \in PhaseEntries /\ pc' # pc)
                  => PhaseRank(pc') = PhaseRank(pc) + 1
        /\ pc \in {"threw", "returned"} => pc' = pc
        /\ scoreCalls # <<>> => fetchCalls' = fetchCalls
        /\ insertCalls # <<>> => (scoreCalls' = scoreCalls /\ scoreReturn' = scoreReturn)
        /\ summary # NoSummary
             => (insertCalls' = insertCalls /\ trading_signals' = trading_signals)
        /\ fetchCalls' # fetchCalls => PhaseRank(pc) = 2
        /\ scoreCalls' # scoreCalls => PhaseRank(pc) = 3
        /\ insertCalls' # insertCalls => PhaseRank(pc) = 4
        /\ summary' # summary => PhaseRank(pc) = 5
        /\ alertCalls' # alertCalls => PhaseRank(pc) = 6
      ]_vars

\* A run that went through all seven phases and made calls in each of the
\* fetch, score, write and notify phases.
C24_Witness ==
    /\ pc = "returned"
    /\ Len(fetchCalls) > 3
    /\ Len(scoreCalls) = 3
    /\ Len(insertCalls) >= 2
    /\ summary # NoSummary
    /\ Len(alertCalls) >= 1

\* The scoring call for item i failed inside generateTradingSignal: the
\* client could not be constructed, the AI call rejected, or reading or
\* matching the response raised an exception.
ScoringFailedInside(i) ==
    \/ geminiResponse[i].stage \in {"client", "call", "text"}
    \/ ~geminiResponse[i].response.isString

\* C25: generateTradingSignal never rejects: every call that has settled
\* yielded a signal for the symbol it was called with, the rule-based
\* fallback of that item's metrics whenever client construction, the AI call
\* or the parsing of the response failed; and the scoring step returns as
\* many scored results as items were selected, for the same symbols.
C25_ScorerNeverRejects ==
    /\ \A i \in DOMAIN scoreReturn :
         scoreReturn[i] # NotReturned
           => /\ ~scoreReturn[i].rejected
              /\ ~signalPromises[i].isNull
              /\ signalPromises[i].symbol = socialMetrics[i].symbol
              /\ ScoringFailedInside(i)
                   => scoreReturn[i] = createFallbackSignal(socialMetrics[i].symbol,
                                                            socialMetrics[i].metrics)
    /\ pc = "save-to-database"
         => /\ Len(tradingSignals) = Len(socialMetrics)
            /\ Symbols(tradingSignals) = Symbols(socialMetrics)

\* Three items scored while the client could not be constructed for any.
C25_Witness ==
    /\ pc = "save-to-database"
    /\ Len(socialMetrics) = 3
    /\ \A i \in DOMAIN geminiResponse : geminiResponse[i].stage = "client"
    /\ Len(tradingSignals) = 3
    /\ tradingSignals[1].signal = "BUY"
    /\ tradingSignals[1].confidence = 100

\* The number of positive indicators of a metrics record, as C26 counts them.
PositiveIndicators(m) ==
    LET floorOne == IF m.mentions > 1 THEN m.mentions ELSE 1
    IN  (IF m.interactions > 100 * floorOne THEN 1 ELSE 0)
      + (IF m.altRank < 100 THEN 1 ELSE 0)
      + (IF m.galaxyScore > 70 THEN 1 ELSE 0)
      + (IF m.creators > 1000 THEN 1 ELSE 0)

\* C26: the fallback signal depends on the metrics alone: with p positive
\* indicators it is BUY with confidence 60 + 10 p for p >= 3, SELL with
\* confidence 60 for p <= 1 and HOLD with confidence 50 for p = 2.
C26_FallbackByIndicatorCount ==
    \A i \in DOMAIN scoreReturn :
        (scoreReturn[i] # NotReturned /\ ScoringFailedInside(i))
          => LET p == PositiveIndicators(socialMetrics[i].metrics)
             IN  /\ p >= 3 => /\ scoreReturn[i].signal = "BUY"
                              /\ scoreReturn[i].confidence = 60 + 10 * p
                 /\ p <= 1 => /\ scoreReturn[i].signal = "SELL"
                              /\ scoreReturn[i].confidence = 60
                 /\ p = 2  => /\ scoreReturn[i].signal = "HOLD"
                              /\ scoreReturn[i].confidence = 50

\* A fallback with exactly three positive indicators, the engagement ratio
\* 1001 / 10 just above its threshold.
C26_Witness ==
    /\ Len(scoreReturn) = 1
    /\ geminiResponse[1].stage = "call"
    /\ socialMetrics[1].metrics.mentions = 10
    /\ socialMetrics[1].metrics.interactions = 1001
    /\ socialMetrics[1].metrics.creators = 1000
    /\ scoreReturn[1].signal = "BUY"
    /\ scoreReturn[1].confidence = 90

\* C27: every signal generateTradingSignal yields, parsed from a response
\* (whatever its SIGNAL word, with a missing CONFIDENCE or one above 100) or
\* produced by the fallback, has a decision among BUY, SELL and HOLD and an
\* integer confidence from 0 to 100; so has every scored result of the step.
C27_SignalWithinRange ==
    /\ \A i \in DOMAIN scoreReturn :
         scoreReturn[i] # NotReturned
           => /\ scoreReturn[i].signal \in {"BUY", "SELL", "HOLD"}
              /\ scoreReturn[i].confidence \in 0..100
    /\ \A k \in DOMAIN tradingSignals :
         /\ tradingSignals[k].signal \in {"BUY", "SELL", "HOLD"}
         /\ tradingSignals[k].confidence \in 0..100

\* A response "SIGNAL: sell ... CONFIDENCE: 101" parsed to SELL with the
\* confidence clamped to 100.
C27_Witness ==
    /\ pc = "save-to-database"
    /\ Len(tradingSignals) = 1
    /\ geminiResponse[1].stage = "ok"
    /\ geminiResponse[1].response.signal = "sell"
    /\ geminiResponse[1].response.confidence = <<1, 0, 1>>
    /\ tradingSignals[1].signal = "SELL"
    /\ tradingSignals[1].confidence = 100

\* C28 as stated, read in the claim's favour: once the run has returned
\* (the state between the two updates of complete-job set aside), the job
\* has status completed exactly when its completion statistics
\* (completed_at and signals_generated, written together with duration_ms)
\* are recorded, whichever of the two updates failed.
C28_CompletedIffStatisticsRecorded ==
    pc = "returned"
        => (job.status = "completed"
              <=> (job.completed_at /\ job.signals_generated >= 0))

\* The symbols whose insert into trading_signals succeeded / failed.
PersistedSymbols == { insertCalls[k].symbol : k \in {j \in DOMAIN insertCalls : insertCalls[j].ok} }

UnpersistedSymbols == { insertCalls[k].symbol : k \in {j \in DOMAIN insertCalls : ~insertCalls[j].ok} }

\* C29 as stated: an alert is sent only for a scored result whose insert
\* in the write phase succeeded.
C29_AlertsOnlyForPersisted ==
    Range(alertCalls) \subseteq PersistedSymbols

\* C29 amended: alerting does not depend on the write phase: once the notify
\* phase has issued its calls, every scored result of confidence 70 or more
\* has been alerted, those whose insert failed included, and nothing else;
\* every alerted result had its insert attempted before.
C29_AlertsWhetherPersistedOrNot ==
    pc \in {"await-alerts", "complete-job", "final-statistics", "returned"}
        => /\ \A k \in DOMAIN ScoredSignals :
                ScoredSignals[k].symbol \in Range(alertCalls)
                    <=> ScoredSignals[k].confidence >= 70
           /\ \A s \in UnpersistedSymbols :
                (\E k \in DOMAIN ScoredSignals :
                    ScoredSignals[k].symbol = s /\ ScoredSignals[k].confidence >= 70)
                  => s \in Range(alertCalls)
           /\ Range(alertCalls) \subseteq PersistedSymbols \cup UnpersistedSymbols

\* An alert went out for a result whose insert had failed.
C29_Witness ==
    /\ pc = "returned"
    /\ \E s \in Range(alertCalls) : s \in UnpersistedSymbols
    /\ \E s \in Range(alertCalls) : s \in PersistedSymbols
    /\ sentCount >= 1

\* The loop of the select phase is about to test a candidate.
AboutToTest ==
    /\ pc = "select-loop"
    /\ coinIdx <= Len(topicResponse)
    /\ Len(results) < 3

\* C30: a candidate whose topic request fails is skipped and the scan goes
\* on: getSocialMetrics yields zero mentions, interactions and creators for
\* it; testing it raises nothing, selects nothing and moves to the next
\* candidate, exactly as testing a candidate whose response has all
\* counters zero does; such a candidate is never among the selected items.
C30_FailedFetchIsSkipped ==
    [][ /\ \A i \in DOMAIN topicResponse :
             ~topicResponse[i].ok
               => /\ getSocialMetrics(i).mentions = 0
                  /\ getSocialMetrics(i).interactions = 0
                  /\ getSocialMetrics(i).creators = 0
                  /\ i \notin Range(Symbols(results'))
                  /\ i \notin Range(Symbols(socialMetrics'))
        /\ (AboutToTest /\ (~topicResponse[coinIdx].ok
                             \/ topicResponse[coinIdx].data = Zeros))
             => /\ pc' = "select-loop"
                /\ thrown' = "none"
                /\ results' = results
                /\ coinIdx' = coinIdx + 1
                /\ fetchCalls' = Append(fetchCalls, coinIdx)
      ]_vars

\* The first candidate's request failed, it was fetched and skipped, and a
\* later candidate was selected.
C30_Witness ==
    /\ pc = "generate-ai-signals"
    /\ Len(topicResponse) >= 2
    /\ ~topicResponse[1].ok
    /\ fetchCalls[1] = 1
    /\ Len(socialMetrics) >= 1
    /\ 1 \notin Range(Symbols(socialMetrics))

====
